---- MODULE Spec2Model ----
(***************************************************************************)
(* Model of halo.py: the Hernquist distribution function, the envelope     *)
(* table built by the constructor, and the rejection sampler.              *)
(*                                                                         *)
(* Number representation (fixed point, integer grids):                     *)
(*   - energies and potentials are integers in units of 5e-9, so that the  *)
(*     threshold 1e-8 of f_of_E is 2 and 1e-2 is 2000000;                  *)
(*   - radii, speeds and target values are integers; a division or a       *)
(*     square root rounds down to the grid;                                *)
(*   - a floating point result is a record [k, v]: k = "num" with value v, *)
(*     k = "nan", or k = "inf" with sign v;                                *)
(*   - the dimensionless energy variable q is carried as the integer       *)
(*     sign(q) * q^2 * QDen, because q = sqrt(E / phi_0) is irrational on  *)
(*     any rational grid while q^2 is not.                                 *)
(***************************************************************************)
EXTENDS Integers, Sequences, FiniteSets, TLC

VARIABLES
    pot_global,   \* the module-level name `pot` read at halo.py:90
    self,         \* the Hernquist instance (fields set by __init__)
    call,         \* the operation the client invoked, with its argument
    arr,          \* the client's argument array as it is after the call
    ret,          \* what the operation returned or raised
    stdout,       \* the diagnostics printed so far
    fn,           \* rejection_sample: the target function
    fn_args,      \* rejection_sample: fn_args['r']
    maxval,       \* rejection_sample: the current bound
    xrng,         \* rejection_sample: the sampling interval <<lo, hi>>
    x,            \* rejection_sample: the candidates of the round
    y,            \* rejection_sample: the thresholds of the round
    fn_eval,      \* rejection_sample: the target evaluated on x
    sample,       \* rejection_sample: the returned sample
    pc,           \* rejection_sample: position in the loop
    radii,        \* draw_speeds / draw_energies: the input array r
    bounds_list,  \* draw_speeds / draw_energies: maxval_list
    out           \* draw_speeds / draw_energies: the list being built

vars == <<pot_global, self, call, arr, ret, stdout, fn, fn_args, maxval,
          xrng, x, y, fn_eval, sample, pc, radii, bounds_list, out>>

(***************************************************************************)
(* Bounds of the model.                                                    *)
(***************************************************************************)
\* values np.random.rand can take: k / RandDen, k in 0 .. RandDen-1
RandDen == 3
\* candidates drawn per round (np.random.rand(10) in the source)
Batch == 2
\* speeds scanned per grid radius (np.linspace(0, vmax, 100) in the source)
NSpeeds == 3
\* points of the radius grid (Ngrid = 1e4 in the source)
Ngrid == 2
\* longest array of radii handed to draw_speeds / draw_energies
MaxN == 2

(***************************************************************************)
(* Floating point values.                                                  *)
(***************************************************************************)
Num(n) == [k |-> "num", v |-> n]

NaN == [k |-> "nan", v |-> 0]

Inf == [k |-> "inf", v |-> 1]

NegInf == [k |-> "inf", v |-> -1]

Abs(n) == IF n < 0 THEN -n ELSE n

Sign(n) == IF n < 0 THEN -1 ELSE IF n > 0 THEN 1 ELSE 0

\* a > b in IEEE arithmetic: false as soon as one side is NaN
VGt(a, b) ==
    CASE a.k = "nan" \/ b.k = "nan" -> FALSE
      [] a.k = "inf" /\ b.k = "inf" -> a.v > b.v
      [] a.k = "inf" -> a.v > 0
      [] b.k = "inf" -> b.v < 0
      [] OTHER -> a.v > b.v

VLt(a, b) == VGt(b, a)

\* a * n for an integer n
VMul(a, n) ==
    CASE a.k = "nan" -> NaN
      [] a.k = "inf" -> IF n = 0 THEN NaN ELSE [k |-> "inf", v |-> a.v * Sign(n)]
      [] OTHER -> Num(a.v * n)

\* a * (c / d) for integers c >= 0, d > 0, rounded down
VFrac(a, c, d) ==
    CASE a.k = "nan" -> NaN
      [] a.k = "inf" -> IF c = 0 THEN NaN ELSE a
      [] OTHER -> IF a.v >= 0 THEN Num((a.v * c) \div d)
                               ELSE Num(-((-(a.v) * c) \div d))

\* np.max: a NaN anywhere in the array makes the result NaN
np_max(s) ==
    IF \E i \in DOMAIN s : s[i].k = "nan" THEN NaN
    ELSE s[CHOOSE i \in DOMAIN s : \A j \in DOMAIN s : ~VGt(s[j], s[i])]

\* np.nanmax: the NaNs are ignored; NaN when nothing else is left
np_nanmax(s) ==
    LET good == {i \in DOMAIN s : s[i].k # "nan"}
    IN  IF good = {} THEN NaN
        ELSE s[CHOOSE i \in good : \A j \in good : ~VGt(s[j], s[i])]

\* integer square root, rounded down
ISqrt(n) == CHOOSE r \in 0..n : r * r <= n /\ (r + 1) * (r + 1) > n

(***************************************************************************)
(* The Hernquist model: derived constants (halo.py:66-77, 102-116).        *)
(***************************************************************************)
\* self.G: the model works in a unit system (the constructor's Unit*
\* arguments) in which the gravitational constant is 1
G == 1

\* q is carried as sign(q) * q^2 * QDen
QDen == 16

\* the threshold 1e-8 of f_of_E, in energy units of 5e-9
EClamp == 2

\* the threshold 1e-2 of f_of_E, in energy units of 5e-9
ELog == 2000000

\* the (mass, scale radius) pairs a model is constructed with
Models == {[M |-> 16, a |-> 1], [M |-> 16, a |-> 4]}

vg(m) == ISqrt((G * m.M) \div m.a)

\* M / (8 sqrt(2) pi^3 a^3 vg^3); the constant 1/(8 sqrt(2) pi^3) and the
\* scale of the values are folded into the factor 32
f_prefactor(m) == (32 * m.M) \div (m.a * m.a * m.a * vg(m) * vg(m) * vg(m))

phi_of_0(m) == -((G * m.M) \div m.a)

\* M / (2 pi a^3); 1/(2 pi) and the scale of the values folded into 64
density_prefactor(m) == (64 * m.M) \div (m.a * m.a * m.a)

(***************************************************************************)
(* Profile functions.                                                      *)
(***************************************************************************)
\* potential(r) = -G M / (r + a), rounded toward zero; -inf at r = -a
potential(h, r) ==
    IF r + h.a = 0 THEN NegInf
    ELSE IF r + h.a > 0 THEN Num(-((h.G * h.M) \div (r + h.a)))
    ELSE Num((h.G * h.M) \div (-(r + h.a)))

\* density(r) = prefactor * (r/a)^-1 * (1 + r/a)^-3
\*            = prefactor * a^4 / (r (r + a)^3)
density(h, r) ==
    LET d == r * (r + h.a) * (r + h.a) * (r + h.a)
        n == h.density_prefactor * h.a * h.a * h.a * h.a
    IN  IF d = 0 THEN (IF r = 0 THEN Inf ELSE NegInf)
        ELSE IF d > 0 THEN Num(n \div d)
        ELSE Num(-(n \div (-d)))

\* np.multiply(x1, x2, out): the third positional argument is the output
\* array; a number there is refused ("return arrays must be of ArrayType")
np_multiply(x1, x2, outarg) ==
    IF outarg.isarray THEN [exc |-> "none", val |-> Num(x1 * x2)]
    ELSE [exc |-> "TypeError", val |-> NaN]

\* mass_enclosed(r): np.multiply(np.power(rt, 2.), np.add(rt, 1.), -2.),
\* then times M.  rt = r / a is carried as r, the powers of a folded in.
mass_enclosed(h, r) ==
    LET ans == np_multiply(r * r, r + h.a, [isarray |-> FALSE, val |-> -2])
    IN  IF ans.exc # "none" THEN ans
        ELSE [exc |-> "none", val |-> VMul(ans.val, h.M)]

(***************************************************************************)
(* The distribution function.                                              *)
(***************************************************************************)
\* 100 * (3 asin q + q sqrt(1-q^2) (1-2q^2) (8q^4-8q^2-3)) (1-q^2)^(-5/2)
\* at q^2 = n / 16, n = 0 .. 15, evaluated as halo.py:44-59 and rounded
FBracket ==
    <<0, 3, 17, 53, 122, 245, 449, 784, 1333, 2253, 3861, 6875, 13171,
      28891, 83078, 480158>>

\* _f_of_q for one q: NaN for |q| > 1 (arcsin, sqrt of a negative number),
\* +-inf at q = +-1 (0^(-5/2)), odd in q
_f_of_q(q, pre) ==
    CASE q.k # "num" -> NaN
      [] Abs(q.v) > QDen -> NaN
      [] Abs(q.v) = QDen -> VMul([k |-> "inf", v |-> Sign(q.v)], pre)
      [] OTHER -> Num(Sign(q.v) * FBracket[Abs(q.v) + 1] * pre)

\* f_of_q(q) on an array
f_of_q(h, q) == [i \in DOMAIN q |-> _f_of_q(q[i], h.f_prefactor)]

\* q_of_E(E) = sqrt(E / phi_0) on an array: NaN where E / phi_0 < 0
q_of_E(h, E) ==
    [i \in DOMAIN E |->
        IF h.phi_of_0 = 0 THEN NaN
        ELSE IF Sign(E[i]) * Sign(h.phi_of_0) < 0 THEN NaN
        ELSE Num((Abs(E[i]) * QDen) \div Abs(h.phi_of_0))]

\* E_of_q(q) = phi_0 * q^2 on an array
E_of_q(h, q) ==
    [i \in DOMAIN q |->
        IF q[i].k # "num" THEN NaN
        ELSE Num(Sign(h.phi_of_0) * ((Abs(h.phi_of_0) * Abs(q[i].v)) \div QDen))]

\* E >= 0 in place of E > 0
f_of_E_keys_ge(E) == {i \in DOMAIN E : E[i] >= 0 /\ E[i] < EClamp}

\* keys of f_of_E: the energies that are overwritten (halo.py:148)
f_of_E_keys(E) == {i \in DOMAIN E : E[i] > 0 /\ E[i] < EClamp}

\* f_of_E(E): E is written in place, so the operator hands back the array
\* together with the result and whether 'E > 1e-2' was printed
f_of_E(h, E) ==
    LET keys == f_of_E_keys(E)
        keys_ == {i \in DOMAIN E : E[i] > ELog}
        E2 == [i \in DOMAIN E |-> IF i \in keys THEN -EClamp ELSE E[i]]
    IN  [ans |-> f_of_q(h, q_of_E(h, E2)), E |-> E2, printed |-> keys_ # {}]

\* f_of_vr(v, r): np.add(pot, kin) is a new array, v itself is not written
f_of_vr(h, v, r) ==
    LET pot == potential(h, r).v
        kin == [i \in DOMAIN v |-> (v[i] * v[i]) \div 2]
    IN  f_of_E(h, [i \in DOMAIN v |-> pot + kin[i]])

\* my_f_of_vr(v, r) = f_of_vr(v, r) * v^2
my_f_of_vr(h, v, r) ==
    LET f == f_of_vr(h, v, r)
    IN  [ans |-> [i \in DOMAIN v |-> VMul(f.ans[i], v[i] * v[i])],
         printed |-> f.printed]

(***************************************************************************)
(* The instance and the envelope table (halo.py:66-99).                    *)
(***************************************************************************)
\* no object: the instance before construction, the name `pot` when unbound
NoSelf ==
    [alive |-> FALSE, M |-> 0, a |-> 0, G |-> 0, vg |-> 0, f_prefactor |-> 0,
     phi_of_0 |-> 0, density_prefactor |-> 0, r_list |-> <<>>,
     maxval_list |-> <<>>]

\* the fields __init__ sets before it builds the table (halo.py:68-77)
InitFields(m) ==
    [alive |-> TRUE, M |-> m.M, a |-> m.a, G |-> G, vg |-> vg(m),
     f_prefactor |-> f_prefactor(m), phi_of_0 |-> phi_of_0(m),
     density_prefactor |-> density_prefactor(m), r_list |-> <<>>,
     maxval_list |-> <<>>]

\* np.logspace(log10rmin, log10rmax, Ngrid) with log10rmin = 0 and
\* log10rmax = Ngrid - 1: the powers of ten 1, 10, 100, ...
logspace == [i \in 1..Ngrid |-> 10 ^ (i - 1)]

\* np.linspace(0, vmax, n)
linspace(vmax, n) == [i \in 1..n |-> ((i - 1) * vmax) \div (n - 1)]

\* the square root left out
vmax_of_nosqrt(h, r) == 2 * Abs(potential(h, r).v)

\* sqrt(2 |potential(r)|): the escape speed at r
vmax_of(h, r) == ISqrt(2 * Abs(potential(h, r).v))

\* one entry of maxval_list: who.my_f_of_vr scanned on the speeds of h
\* (halo.py:89-90); `who` is the object the name `pot` is bound to
maxval_entry(h, who, r) ==
    VMul(np_nanmax(my_f_of_vr(who, linspace(vmax_of(h, r), NSpeeds), r).ans), 2)

maxval_table(h, who) == [i \in 1..Ngrid |-> maxval_entry(h, who, logspace[i])]

\* interp1d(r_list, maxval_list, bounds_error=False,
\*          fill_value=(maxval_list[0], maxval_list[-1])) at one radius
maxval_interp(h, r) ==
    LET n == Len(h.r_list)
    IN  IF r < h.r_list[1] THEN h.maxval_list[1]
        ELSE IF r >= h.r_list[n] THEN h.maxval_list[n]
        ELSE LET i == CHOOSE j \in 1..(n - 1) :
                          h.r_list[j] <= r /\ r < h.r_list[j + 1]
                 y0 == h.maxval_list[i]
                 y1 == h.maxval_list[i + 1]
                 dr == h.r_list[i + 1] - h.r_list[i]
             IN  IF y0.k # "num" \/ y1.k # "num" THEN NaN
                 ELSE IF y1.v >= y0.v
                      THEN Num(y0.v + ((y1.v - y0.v) * (r - h.r_list[i])) \div dr)
                      ELSE Num(y0.v - ((y0.v - y1.v) * (r - h.r_list[i])) \div dr)

(***************************************************************************)
(* rejection_sample (halo.py:12-39).                                       *)
(***************************************************************************)
NoFn == [name |-> "none", tab |-> <<>>]

\* x = np.random.rand() * xwidth for the variate k / RandDen (halo.py:21,24);
\* xstart is computed at halo.py:14 and never used
draw_x(k, xwidth, xstart) == (k * xwidth) \div RandDen

\* y = np.random.rand() * maxval for the variate k / RandDen (halo.py:22,25)
draw_y(k, mv) == VFrac(mv, k, RandDen)

\* fn(x, **fn_args): the result, the array x as the call leaves it, and
\* whether the call printed 'E > 1e-2'
apply_fn(f, xs, r) ==
    CASE f.name = "f_of_E" ->
           LET e == f_of_E(self, xs)
           IN  [ans |-> e.ans, x |-> e.E, printed |-> e.printed]
      [] f.name = "my_f_of_vr" ->
           LET e == my_f_of_vr(self, xs, r)
           IN  [ans |-> e.ans, x |-> xs, printed |-> e.printed]
      [] OTHER ->
           [ans |-> [i \in DOMAIN xs |-> f.tab[xs[i]]], x |-> xs,
            printed |-> FALSE]

\* np.all in place of np.any
all_exceed(fe, mv) == \A i \in DOMAIN fe : VGt(fe[i], mv)

\* np.any(fn_eval > maxval)
any_exceeds(fe, mv) == \E i \in DOMAIN fe : VGt(fe[i], mv)

\* np.where(y < fn_eval)[0]
accept_keys(ys, fe) == {i \in DOMAIN fe : VLt(ys[i], fe[i])}

\* 1.5 * np.max(fn_eval)
escalated(fe) == VFrac(np_max(fe), 3, 2)

Draws == [1..Batch -> 0..(RandDen - 1)]

\* halo.py:21-25: draw the candidates and the thresholds of a round
RSDraw ==
    /\ pc = "draw"
    /\ \E kx \in Draws, ky \in Draws :
          /\ x' = [i \in 1..Batch |-> draw_x(kx[i], xrng[2] - xrng[1], xrng[1])]
          /\ y' = [i \in 1..Batch |-> draw_y(ky[i], maxval)]
    /\ pc' = "eval"
    /\ UNCHANGED <<pot_global, self, call, arr, ret, stdout, fn, fn_args,
                   maxval, xrng, fn_eval, sample, radii, bounds_list, out>>

\* halo.py:27: evaluate the target on the candidates
RSEval ==
    /\ pc = "eval"
    /\ LET e == apply_fn(fn, x, fn_args)
       IN  /\ fn_eval' = e.ans
           /\ x' = e.x
           /\ stdout' = IF e.printed THEN stdout \cup {"E > 1e-2"} ELSE stdout
    /\ pc' = "test"
    /\ UNCHANGED <<pot_global, self, call, arr, ret, fn, fn_args, maxval,
                   xrng, y, sample, radii, bounds_list, out>>

\* halo.py:29-37: escalate and restart, accept and leave the loop, or go
\* round again.  The arrays of an abandoned round are unreachable once
\* halo.py:21-22 rebind x and y, so they are dropped at the jump.
RSTest ==
    /\ pc = "test"
    /\ IF any_exceeds(fn_eval, maxval)
       THEN /\ stdout' = stdout \cup {"maxval exceeded"}
            /\ maxval' = escalated(fn_eval)
            /\ pc' = "draw"
            /\ x' = <<>> /\ y' = <<>> /\ fn_eval' = <<>>
            /\ UNCHANGED sample
       ELSE LET keys == accept_keys(y, fn_eval)
            IN  IF keys # {}
                THEN /\ sample' = x[CHOOSE i \in keys : \A j \in keys : i <= j]
                     /\ pc' = "done"
                     /\ UNCHANGED <<stdout, maxval, x, y, fn_eval>>
                ELSE /\ pc' = "draw"
                     /\ x' = <<>> /\ y' = <<>> /\ fn_eval' = <<>>
                     /\ UNCHANGED <<stdout, maxval, sample>>
    /\ UNCHANGED <<pot_global, self, call, arr, ret, fn, fn_args, xrng,
                   radii, bounds_list, out>>

(***************************************************************************)
(* Direct calls of rejection_sample on a tabulated target.                 *)
(***************************************************************************)
\* the points a tabulated target is defined on
XDom == (-2)..2

\* the values a tabulated target takes
FnVals == {NaN, Num(1), Num(4)}

\* the bounds rejection_sample is called with
MaxVals0 == {Num(1), Num(2), Num(4)}

\* the intervals rejection_sample is called with
XRngs == {<<0, 2>>, <<-2, 0>>}

Running == [exc |-> "running", val |-> <<>>]

InitRS ==
    /\ pot_global = NoSelf
    /\ self = NoSelf
    /\ \E t \in [XDom -> FnVals], mv \in MaxVals0, rng \in XRngs :
          /\ fn = [name |-> "table", tab |-> t]
          /\ maxval = mv
          /\ xrng = rng
          /\ call = [op |-> "rejection_sample",
                     arg |-> [maxval |-> mv, xrng |-> rng]]
    /\ arr = <<>>
    /\ ret = Running
    /\ stdout = {}
    /\ fn_args = 0
    /\ x = <<>> /\ y = <<>> /\ fn_eval = <<>>
    /\ sample = 0
    /\ pc = "draw"
    /\ radii = <<>> /\ bounds_list = <<>> /\ out = <<>>

NextRS == RSDraw \/ RSEval \/ RSTest

SpecRS == InitRS /\ [][NextRS]_vars

\* calls on an interval that starts at 0, where the unused xstart makes no
\* difference
InitRSFair ==
    /\ InitRS
    /\ xrng = <<0, 2>>
    /\ \A p \in XDom : p < 0 => fn.tab[p] = Num(1)

\* the uniform variates are fair: a round that can accept is not passed
\* over for ever
FairSpecRS ==
    /\ InitRSFair
    /\ [][NextRS]_vars
    /\ WF_vars(NextRS)
    /\ SF_vars(RSDraw /\ accept_keys(y', apply_fn(fn, x', fn_args).ans) # {}
                      /\ ~any_exceeds(apply_fn(fn, x', fn_args).ans, maxval))

(***************************************************************************)
(* The client of a Hernquist instance.                                     *)
(***************************************************************************)
\* radii the profile functions are called with
RCall == {-2, -1, 0, 1, 3}

\* values of q (as sign * q^2 * QDen) f_of_q is called with
QCall == {-4, 0, 4, 15, 16, 20}

\* energies f_of_E is called with
ECall == {-17, -16, -2, -1, 0, 1, 2, 3, ELog, ELog + 1}

\* radii draw_speeds and draw_energies are called with
RDraw == {1, 3}

\* what the session that imported halo.py has bound the module-level name
\* `pot` to: nothing (halo.py never assigns it) or a Hernquist object
PotBindings == {NoSelf, InitFields([M |-> 16, a |-> 4])}

Idle == ret.exc # "running" /\ pc = "none"

FrameIdle ==
    /\ fn' = NoFn /\ fn_args' = 0 /\ maxval' = NaN /\ xrng' = <<0, 0>>
    /\ x' = <<>> /\ y' = <<>> /\ fn_eval' = <<>> /\ sample' = 0
    /\ pc' = "none"
    /\ radii' = <<>> /\ bounds_list' = <<>> /\ out' = <<>>

Init ==
    /\ pot_global \in PotBindings
    /\ self = NoSelf
    /\ call = [op |-> "none", arg |-> <<>>]
    /\ arr = <<>>
    /\ ret = [exc |-> "none", val |-> <<>>]
    /\ stdout = {}
    /\ fn = NoFn /\ fn_args = 0 /\ maxval = NaN /\ xrng = <<0, 0>>
    /\ x = <<>> /\ y = <<>> /\ fn_eval = <<>> /\ sample = 0
    /\ pc = "none"
    /\ radii = <<>> /\ bounds_list = <<>> /\ out = <<>>

\* Hernquist(M, a): halo.py:66-79 and _init_maxval_list_, halo.py:81-99.
\* halo.py:90 reads the module-level name `pot`: NameError when it is
\* unbound, otherwise the table is scanned on the object it is bound to.
Construct(m) ==
    /\ Idle
    /\ ~self.alive
    /\ call' = [op |-> "__init__", arg |-> m]
    /\ arr' = <<>>
    /\ stdout' = {}
    /\ IF ~pot_global.alive
       THEN /\ ret' = [exc |-> "NameError", val |-> <<>>]
            /\ UNCHANGED self
       ELSE /\ self' = [InitFields(m) EXCEPT
                           !.r_list = logspace,
                           !.maxval_list = maxval_table(InitFields(m), pot_global)]
            /\ ret' = [exc |-> "none", val |-> <<>>]
    /\ FrameIdle
    /\ UNCHANGED pot_global

\* self.f_of_q(q) on a one-element array
Call_f_of_q(q) ==
    /\ Idle /\ self.alive
    /\ call' = [op |-> "f_of_q", arg |-> <<q>>]
    /\ arr' = <<q>>
    /\ ret' = [exc |-> "none", val |-> f_of_q(self, <<Num(q)>>)]
    /\ stdout' = {}
    /\ FrameIdle
    /\ UNCHANGED <<pot_global, self>>

\* self.f_of_E(E) on the client's array E
Call_f_of_E(E) ==
    /\ Idle /\ self.alive
    /\ call' = [op |-> "f_of_E", arg |-> E]
    /\ LET e == f_of_E(self, E)
       IN  /\ arr' = e.E
           /\ ret' = [exc |-> "none", val |-> e.ans]
           /\ stdout' = IF e.printed THEN {"E > 1e-2"} ELSE {}
    /\ FrameIdle
    /\ UNCHANGED <<pot_global, self>>

\* self.potential(r)
Call_potential(r) ==
    /\ Idle /\ self.alive
    /\ call' = [op |-> "potential", arg |-> r]
    /\ arr' = <<>>
    /\ ret' = [exc |-> "none", val |-> potential(self, r)]
    /\ stdout' = {}
    /\ FrameIdle
    /\ UNCHANGED <<pot_global, self>>

\* self.density(r)
Call_density(r) ==
    /\ Idle /\ self.alive
    /\ call' = [op |-> "density", arg |-> r]
    /\ arr' = <<>>
    /\ ret' = [exc |-> "none", val |-> density(self, r)]
    /\ stdout' = {}
    /\ FrameIdle
    /\ UNCHANGED <<pot_global, self>>

\* self.mass_enclosed(r)
Call_mass_enclosed(r) ==
    /\ Idle /\ self.alive
    /\ call' = [op |-> "mass_enclosed", arg |-> r]
    /\ arr' = <<>>
    /\ ret' = mass_enclosed(self, r)
    /\ stdout' = {}
    /\ FrameIdle
    /\ UNCHANGED <<pot_global, self>>

RadiiArrays == UNION {[1..n -> RDraw] : n \in 1..MaxN}

\* the call rejection_sample(self.my_f_of_vr, maxval, 1, xrng=[0, vmax],
\* fn_args={'r': this_r}) of halo.py:316 for the i-th radius
EnterSpeed(rs, bl, i) ==
    /\ fn' = [name |-> "my_f_of_vr", tab |-> <<>>]
    /\ fn_args' = rs[i]
    /\ maxval' = bl[i]
    /\ xrng' = <<0, vmax_of(self, rs[i])>>
    /\ x' = <<>> /\ y' = <<>> /\ fn_eval' = <<>>
    /\ sample' = 0
    /\ pc' = "draw"

\* the call rejection_sample(self.f_of_E, maxval, 1, xrng=[pot, 0]) of
\* halo.py:291 for the i-th radius
EnterEnergy(rs, bl, i) ==
    /\ fn' = [name |-> "f_of_E", tab |-> <<>>]
    /\ fn_args' = 0
    /\ maxval' = bl[i]
    /\ xrng' = <<potential(self, rs[i]).v, 0>>
    /\ x' = <<>> /\ y' = <<>> /\ fn_eval' = <<>>
    /\ sample' = 0
    /\ pc' = "draw"

\* draw_speeds(r), halo.py:302-316, up to the first rejection_sample call
DrawSpeeds(rs) ==
    /\ Idle /\ self.alive
    /\ call' = [op |-> "draw_speeds", arg |-> rs]
    /\ arr' = rs
    /\ ret' = Running
    /\ stdout' = {}
    /\ radii' = rs
    /\ bounds_list' = [i \in DOMAIN rs |-> maxval_interp(self, rs[i])]
    /\ out' = <<>>
    /\ EnterSpeed(rs, bounds_list', 1)
    /\ UNCHANGED <<pot_global, self>>

\* draw_energies(r), halo.py:286-291, up to the first rejection_sample call
DrawEnergies(rs) ==
    /\ Idle /\ self.alive
    /\ call' = [op |-> "draw_energies", arg |-> rs]
    /\ arr' = rs
    /\ ret' = Running
    /\ LET e == f_of_E(self, [i \in DOMAIN rs |-> potential(self, rs[i]).v])
       IN  /\ bounds_list' = e.ans
           /\ stdout' = IF e.printed THEN {"E > 1e-2"} ELSE {}
    /\ radii' = rs
    /\ out' = <<>>
    /\ EnterEnergy(rs, bounds_list', 1)
    /\ UNCHANGED <<pot_global, self>>

\* rejection_sample returns into the loop of draw_speeds / draw_energies:
\* append float(sample), then the next radius or return the array
RSReturn ==
    /\ pc = "done"
    /\ call.op \in {"draw_speeds", "draw_energies"}
    /\ out' = Append(out, sample)
    /\ IF Len(out') = Len(radii)
       THEN /\ ret' = [exc |-> "none", val |-> out']
            /\ fn' = NoFn /\ fn_args' = 0 /\ maxval' = NaN /\ xrng' = <<0, 0>>
            /\ x' = <<>> /\ y' = <<>> /\ fn_eval' = <<>> /\ sample' = 0
            /\ pc' = "none"
       ELSE /\ UNCHANGED ret
            /\ IF call.op = "draw_speeds"
               THEN EnterSpeed(radii, bounds_list, Len(out') + 1)
               ELSE EnterEnergy(radii, bounds_list, Len(out') + 1)
    /\ UNCHANGED <<pot_global, self, call, arr, stdout, radii, bounds_list>>

Next ==
    \/ \E m \in Models : Construct(m)
    \/ \E q \in QCall : Call_f_of_q(q)
    \/ \E E \in UNION {[1..n -> ECall] : n \in 1..2} : Call_f_of_E(E)
    \/ \E r \in RCall : Call_potential(r)
    \/ \E r \in RCall : Call_density(r)
    \/ \E r \in RCall : Call_mass_enclosed(r)
    \/ \E rs \in RadiiArrays : DrawSpeeds(rs)
    \/ \E rs \in RadiiArrays : DrawEnergies(rs)
    \/ RSDraw
    \/ RSEval
    \/ RSTest
    \/ RSReturn

Spec == Init /\ [][Next]_vars

(***************************************************************************)
(* Properties.                                                             *)
(***************************************************************************)
\* some value of the round is a number above the bound
RoundExceeds ==
    \E i \in DOMAIN fn_eval :
        fn_eval[i].k = "num" /\ maxval.k = "num" /\ fn_eval[i].v > maxval.v

C2_CandidatesInInterval ==
    /\ pc \in {"eval", "test", "done"} =>
          \A i \in DOMAIN x : xrng[1] <= x[i] /\ x[i] <= xrng[2]
    /\ pc = "done" => (xrng[1] <= sample /\ sample <= xrng[2])

\* the target is a number at some candidate the sampler can draw
SomeCandidateAcceptable ==
    \E k \in 0..(RandDen - 1) :
        fn.tab[draw_x(k, xrng[2] - xrng[1], xrng[1])].k = "num"

\* C3: every call of rejection_sample on a target with an acceptable
\* candidate eventually returns a sample, whatever the initial maxval.
C3_Terminates == SomeCandidateAcceptable => <>(pc = "done")

\* C4: if f(x) <= maxval for every x of the sampling interval, no bound
\* escalation happens: maxval keeps its initial value and no
\* 'maxval exceeded' diagnostic is printed.
C4_NoEscalationUnderValidBound ==
    (\A p \in xrng[1]..xrng[2] :
        fn.tab[p].k = "num" /\ fn.tab[p].v <= call.arg.maxval.v)
    => (maxval = call.arg.maxval /\ "maxval exceeded" \notin stdout)

\* C5: draw_speeds returns one speed per input radius, the i-th being the
\* sample rejection_sample returned for the i-th radius, drawn with the
\* table's bound at r_i as initial maxval on [0, v_escape(r_i)]; every
\* returned speed satisfies 0 <= v_i <= sqrt(2 |Phi(r_i)|).
C5_DrawSpeeds ==
    /\ []((call.op = "draw_speeds" /\ ret.exc = "none") =>
            /\ Len(ret.val) = Len(call.arg)
            /\ \A i \in DOMAIN ret.val :
                  /\ 0 <= ret.val[i]
                  /\ ret.val[i] * ret.val[i]
                        <= 2 * ((self.G * self.M) \div (call.arg[i] + self.a)))
    /\ []((call.op = "draw_speeds" /\ ret.exc = "running") =>
            /\ radii = call.arg
            /\ fn.name = "my_f_of_vr"
            /\ fn_args = radii[Len(out) + 1]
            /\ xrng[1] = 0
            /\ xrng[2] * xrng[2]
                  <= 2 * ((self.G * self.M) \div (fn_args + self.a))
            /\ (xrng[2] + 1) * (xrng[2] + 1)
                  > 2 * ((self.G * self.M) \div (fn_args + self.a)))
    /\ [][(call'.op = "draw_speeds" /\ pc' = "draw" /\ pc \in {"none", "done"}) =>
            maxval' = maxval_interp(self, radii'[Len(out') + 1])]_vars
    /\ [][(call.op = "draw_speeds" /\ pc = "done") =>
            /\ out' = Append(out, sample)
            /\ \E i \in DOMAIN x : sample = x[i]]_vars

\* C5 witness: two speeds returned for two different radii, one of them
\* positive
C5_Witness ==
    /\ call.op = "draw_speeds" /\ ret.exc = "none"
    /\ Len(ret.val) = 2
    /\ call.arg[1] # call.arg[2]
    /\ ret.val[2] > 0

\* C6: constructing a model completes and leaves a table with strictly
\* increasing radii whose bounds are finite, non-negative and twice the
\* maximum of the model's own target over the scanned speeds.
C6_TableOfOwnModel ==
    call.op = "__init__" =>
        /\ ret.exc = "none"
        /\ self.alive
        /\ Len(self.r_list) = Ngrid /\ Len(self.maxval_list) = Ngrid
        /\ \A i \in 1..(Ngrid - 1) : self.r_list[i] < self.r_list[i + 1]
        /\ \A i \in 1..Ngrid :
              /\ self.maxval_list[i].k = "num"
              /\ self.maxval_list[i].v >= 0
              /\ self.maxval_list[i] =
                    maxval_entry(InitFields(call.arg), InitFields(call.arg),
                                 self.r_list[i])

\* C7: f_of_E evaluates every energy in (0, 1e-8) as -1e-8 and every other
\* energy unmodified, raises nothing, and prints the diagnostic exactly
\* when some energy exceeds 1e-2.
C7_EdgeCasePolicy ==
    call.op = "f_of_E" =>
        /\ ret.exc = "none"
        /\ ret.val =
              f_of_q(self, q_of_E(self,
                  [i \in DOMAIN call.arg |->
                      IF 0 < call.arg[i] /\ call.arg[i] < EClamp
                      THEN -EClamp ELSE call.arg[i]]))
        /\ ("E > 1e-2" \in stdout) <=> (\E i \in DOMAIN call.arg : call.arg[i] > ELog)

\* C7 witness: a call with an energy in (0, 1e-8), the energy 0 and an
\* energy above 1e-2 among its arguments
C7_Witness ==
    /\ call.op = "f_of_E"
    /\ \E i \in DOMAIN call.arg : call.arg[i] = 1
    /\ "E > 1e-2" \in stdout

\* C8: a distribution-function operation called with q outside [0,1), or a
\* profile operation called with a negative radius, is rejected with an
\* error and returns no value.
C8_DomainViolationFailsFast ==
    /\ (call.op = "f_of_q" /\ (call.arg[1] < 0 \/ call.arg[1] >= QDen))
          => ret.exc \notin {"none", "running"}
    /\ (call.op \in {"potential", "density", "mass_enclosed"} /\ call.arg < 0)
          => ret.exc \notin {"none", "running"}

\* C9: evaluating the target leaves the caller's array unchanged: f_of_E
\* returns with its argument as it was passed, and inside rejection_sample
\* the candidates are the same before and after fn(x).
C9_TargetLeavesInputUnchanged ==
    /\ [](call.op = "f_of_E" => arr = call.arg)
    /\ [][pc = "eval" => x' = x]_vars

\* C10: mass_enclosed(r) returns the value M (r/a)^2 / (1 + r/a)^2 for
\* every r >= 0: 0 at r = 0 and at least 0 and below M everywhere.
C10_MassEnclosed ==
    (call.op = "mass_enclosed" /\ call.arg >= 0) =>
        /\ ret.exc = "none"
        /\ ret.val.k = "num"
        /\ ret.val.v = (self.M * call.arg * call.arg)
                          \div ((call.arg + self.a) * (call.arg + self.a))
        /\ 0 <= ret.val.v /\ ret.val.v < self.M
        /\ (call.arg = 0 => ret.val.v = 0)

====
